---- MODULE Spec2Model ----
(***************************************************************************)
(* Variable-height virtual list (src/src/app/containers/VList/index.tsx).  *)
(*                                                                         *)
(* The model follows one VirtualList instance through React's work loop:   *)
(* an event (scroll, new props) marks the component dirty, Render builds   *)
(* the DynamicItem cells from renderList, Commit attaches the ref          *)
(* callbacks (updateH + setIsMouted), and the three useEffect callbacks    *)
(* run after the commit in declaration order.  JS array indices are        *)
(* 0-based; sequences here are 1-based, so JS h[i] is h[i + 1].            *)
(* Item ids are the item indices (id: `item-${i}`), so the cell for index  *)
(* i keeps its React key across collections.                               *)
(***************************************************************************)
EXTENDS Integers, Sequences, FiniteSets

\* ---- bounds of the model ----
MaxN == 3
MaxH == 1
MaxEst == 2
MaxContainer == 1
MaxBuffer == 1
MaxScroll == 3

VARIABLES
  dataLength,           \* data.length of the current `data` prop
  offsetHeight,         \* el.offsetHeight of item i, NoLayout until laid out
  containerHeight,      \* prop
  estimatedItemHeight,  \* prop
  bufferCount,          \* prop
  scrollTop,            \* useState(0)
  itemHeights,          \* useRef<number[]>([]) .current
  height,               \* useState(0)
  renderList,           \* useState<number[]>([])
  cells,                \* mounted DynamicItems: idx -> [top, isMouted,
                        \*   reported (updateH called this mount),
                        \*   repeated (updateH called again this mount)]
  pc,                   \* position in React's work loop
  dirtyParent,          \* VirtualList has a pending update
  dirtyCells,           \* DynamicItems with a pending setIsMouted(true)
  toCommit,             \* cells rendered in the current pass (refs to attach)
  pending,              \* effects whose dependency array changed
  window,               \* <<startIndex, endIndex>> of the resolution just made
  event                 \* what started the current pass of the work loop

vars == <<dataLength, offsetHeight, containerHeight, estimatedItemHeight,
          bufferCount, scrollTop, itemHeights, height, renderList, cells, pc,
          dirtyParent, dirtyCells, toCommit, pending, window, event>>

props == <<containerHeight, bufferCount>>

ValidConfig ==
  containerHeight > 0 /\ estimatedItemHeight > 0 /\ bufferCount >= 0

\* ---- JS numbers: integers plus NaN ----
NaN == -1000

Plus(a, b) == IF a = NaN \/ b = NaN THEN NaN ELSE a + b

Less(a, b) == a # NaN /\ b # NaN /\ a < b

MathMax(a, b) == IF a = NaN \/ b = NaN THEN NaN ELSE IF a > b THEN a ELSE b

MathMin(a, b) == IF a = NaN \/ b = NaN THEN NaN ELSE IF a < b THEN a ELSE b

\* h[i] of a JS array: undefined (NaN in arithmetic) outside 0..length-1
At(h, i) == IF i >= 0 /\ i < Len(h) THEN h[i + 1] ELSE NaN

\* new Array(n).fill(v)
ArrayFill(n, v) == [j \in 1..n |-> v]

\* Array.from({ length: endIndex - startIndex }, (_, i) => i + startIndex)
ArrayFromWindow(startIndex, endIndex) ==
  IF endIndex - startIndex > 0
    THEN [j \in 1..(endIndex - startIndex) |-> j - 1 + startIndex]
    ELSE <<>>

Indices(list) == {list[j] : j \in 1..Len(list)}

\* ---- getCumulativeHeight ----
RECURSIVE CumulativeLoopInclusive(_, _, _, _)
CumulativeLoopInclusive(h, index, acc, idx) ==
  IF idx <= index
    THEN CumulativeLoopInclusive(h, index, Plus(acc, At(h, idx)), idx + 1)
    ELSE acc

RECURSIVE CumulativeLoop(_, _, _, _)
CumulativeLoop(h, index, acc, idx) ==
  IF idx < index
    THEN CumulativeLoop(h, index, Plus(acc, At(h, idx)), idx + 1)
    ELSE acc

getCumulativeHeight(h, index) == CumulativeLoop(h, index, 0, 0)

\* ---- findStartIndex ----
RECURSIVE StartLoop(_, _, _, _)
StartLoop(h, scrollPosition, sum, idx) ==
  IF Less(sum, scrollPosition)
    THEN StartLoop(h, scrollPosition, Plus(sum, At(h, idx)), idx + 1)
    ELSE idx

findStartIndex(h, scrollPosition, buffer) ==
  MathMax(0, StartLoop(h, scrollPosition, 0, 0) - buffer)

\* ---- findEndIndex ----
RECURSIVE EndLoopAtThreshold(_, _, _, _, _, _)
EndLoopAtThreshold(h, i, n, totalHeight, endIndex, threshold) ==
  IF i < n
    THEN LET t == Plus(totalHeight, At(h, i))
         IN  IF ~Less(t, threshold)
               THEN i
               ELSE EndLoopAtThreshold(h, i + 1, n, t, i, threshold)
    ELSE endIndex

RECURSIVE EndLoop(_, _, _, _, _, _)
EndLoop(h, i, n, totalHeight, endIndex, threshold) ==
  IF i < n
    THEN LET t == Plus(totalHeight, At(h, i))
         IN  IF Less(threshold, t)
               THEN i
               ELSE EndLoop(h, i + 1, n, t, i, threshold)
    ELSE endIndex

findEndIndexNoClamp(h, startIndex, n, container, buffer, estimate) ==
  EndLoop(h, startIndex, n, 0, startIndex, container + buffer * estimate)
    + buffer

findEndIndex(h, startIndex, n, container, buffer, estimate) ==
  MathMin(n - 1,
          EndLoop(h, startIndex, n, 0, startIndex,
                  container + buffer * estimate) + buffer)

\* ---- updateH: itemHeights.current[idx] = h ----
updateHNext(h, idx, v) ==
  [j \in 1..(IF idx + 2 > Len(h) THEN idx + 2 ELSE Len(h)) |->
     IF j = idx + 2 THEN v ELSE IF j <= Len(h) THEN h[j] ELSE NaN]

updateH(h, idx, v) ==
  [j \in 1..(IF idx + 1 > Len(h) THEN idx + 1 ELSE Len(h)) |->
     IF j = idx + 1 THEN v ELSE IF j <= Len(h) THEN h[j] ELSE NaN]

\* the effects a call of updateH schedules: it writes a ref and sets no state
ReportTriggersWindow == {"window"}

ReportTriggers == {}

\* the ref callbacks of one commit, applied in index order
RECURSIVE ApplyRefs(_, _, _)
ApplyRefs(h, S, oh) ==
  IF S = {} THEN h
  ELSE LET idx == CHOOSE x \in S : \A y \in S : x <= y
       IN  ApplyRefs(updateH(h, idx, At(oh, idx)), S \ {idx}, oh)

\* ---- DynamicItem ----
InitialIsMoutedTrue == TRUE

InitialIsMouted == FALSE

\* const top = idx === 0 ? 0 : getHeightByIdx(idx)
Top(h, idx) == IF idx = 0 THEN 0 ELSE getCumulativeHeight(h, idx)

\* ---- dependency arrays of the three effects ----
ChangedEffectsNoData(dataChanged, lenChanged, estChanged, scrollChanged) ==
  (IF lenChanged \/ estChanged THEN {"init"} ELSE {})
  \cup (IF lenChanged \/ estChanged \/ scrollChanged THEN {"window"} ELSE {})
  \cup (IF lenChanged THEN {"height"} ELSE {})

ChangedEffects(dataChanged, lenChanged, estChanged, scrollChanged) ==
  (IF dataChanged \/ estChanged THEN {"init"} ELSE {})
  \cup (IF lenChanged \/ estChanged \/ scrollChanged THEN {"window"} ELSE {})
  \cup (IF lenChanged THEN {"height"} ELSE {})

\* where the work loop goes once the effects in `rest` are still to run
AfterCommit(rest, dParent, dCells) ==
  IF rest # {} THEN "effects"
  ELSE IF dParent \/ dCells # {} THEN "render"
  ELSE "idle"

NoCells ==
  [i \in {} |-> [top |-> 0, isMouted |-> FALSE, reported |-> FALSE,
                  repeated |-> FALSE]]

\* an item's element has no offsetHeight before it is first inserted
NoLayout == -1

\* the layout engine fixes an item's height when its element is first
\* inserted; the height stays the same for as long as the collection does
LaidOut(oh, S) ==
  LET new == {j \in 1..Len(oh) : oh[j] = NoLayout /\ j - 1 \in S}
  IN  {[j \in 1..Len(oh) |-> IF j \in new THEN l[j] ELSE oh[j]] :
         l \in [new -> 0..MaxH]}

\* ---- initial state: the component constructed, first render pending ----
InitWith(containers, estimates, buffers) ==
  /\ dataLength \in 0..MaxN
  /\ offsetHeight = ArrayFill(dataLength, NoLayout)
  /\ containerHeight \in containers
  /\ estimatedItemHeight \in estimates
  /\ bufferCount \in buffers
  /\ scrollTop = 0
  /\ itemHeights = <<>>
  /\ height = 0
  /\ renderList = <<>>
  /\ cells = NoCells
  /\ pc = "render"
  /\ dirtyParent = TRUE
  /\ dirtyCells = {}
  /\ toCommit = {}
  /\ pending = {"init", "window", "height"}
  /\ window = <<>>
  /\ event = "mount"

Init == InitWith(1..MaxContainer, 1..MaxEst, 0..MaxBuffer)

\* any numbers TypeScript's `number` props admit, valid or not
InitAnyConfig == InitWith(0..MaxContainer, 0..MaxEst, (-1)..MaxBuffer)

\* ---- render of VirtualList and of its DynamicItems ----
Render ==
  /\ pc = "render"
  /\ IF dirtyParent
       THEN IF \E idx \in Indices(renderList) : idx >= dataLength
              THEN \* data[idx]! is undefined: item.id throws, React unmounts
                   /\ pc' = "crashed"
                   /\ cells' = NoCells
                   /\ toCommit' = {}
              ELSE /\ pc' = "commit"
                   /\ cells' = [idx \in Indices(renderList) |->
                        [top |-> Top(itemHeights, idx),
                         isMouted |-> IF idx \in DOMAIN cells
                                        THEN cells[idx].isMouted
                                             \/ idx \in dirtyCells
                                        ELSE InitialIsMouted,
                         reported |-> idx \in DOMAIN cells
                                      /\ cells[idx].reported,
                         repeated |-> idx \in DOMAIN cells
                                      /\ cells[idx].repeated]]
                   /\ toCommit' = Indices(renderList)
       ELSE /\ pc' = "commit"
            /\ cells' = [idx \in DOMAIN cells |->
                 IF idx \in dirtyCells
                   THEN [top |-> Top(itemHeights, idx),
                         isMouted |-> TRUE,
                         reported |-> cells[idx].reported,
                         repeated |-> cells[idx].repeated]
                   ELSE cells[idx]]
            /\ toCommit' = dirtyCells \cap DOMAIN cells
  /\ dirtyParent' = FALSE
  /\ dirtyCells' = {}
  /\ window' = <<>>
  /\ UNCHANGED <<event, dataLength, offsetHeight, estimatedItemHeight, props,
                 scrollTop, itemHeights, height, renderList, pending>>

\* ---- commit: every rendered cell's ref callback runs ----
Commit ==
  /\ pc = "commit"
  /\ offsetHeight' \in LaidOut(offsetHeight, toCommit)
  /\ itemHeights' = ApplyRefs(itemHeights, toCommit, offsetHeight')
  /\ cells' = [idx \in DOMAIN cells |->
                 IF idx \in toCommit
                   THEN [cells[idx] EXCEPT
                           !.reported = TRUE,
                           !.repeated = cells[idx].reported]
                   ELSE cells[idx]]
  /\ dirtyCells' = {idx \in toCommit : ~cells[idx].isMouted}
  /\ toCommit' = {}
  /\ pending' = pending \cup (IF toCommit # {} THEN ReportTriggers ELSE {})
  /\ pc' = AfterCommit(pending', dirtyParent, dirtyCells')
  /\ window' = <<>>
  /\ UNCHANGED <<event, dataLength, estimatedItemHeight, props,
                 scrollTop, height, renderList, dirtyParent>>

\* ---- useEffect #1: seed the heights with the estimate ----
InitEffect ==
  /\ pc = "effects"
  /\ "init" \in pending
  /\ itemHeights' = ArrayFill(dataLength, estimatedItemHeight)
  /\ pending' = pending \ {"init"}
  /\ pc' = AfterCommit(pending', dirtyParent, dirtyCells)
  /\ window' = <<>>
  /\ UNCHANGED <<event, dataLength, offsetHeight, estimatedItemHeight, props,
                 scrollTop, height, renderList, cells, dirtyParent,
                 dirtyCells, toCommit>>

\* ---- useEffect #2: resolve the window ----
WindowEffect ==
  /\ pc = "effects"
  /\ "init" \notin pending
  /\ "window" \in pending
  /\ LET startIndex == findStartIndex(itemHeights, scrollTop, bufferCount)
         endIndex == findEndIndex(itemHeights, startIndex, dataLength,
                                  containerHeight, bufferCount,
                                  estimatedItemHeight)
     IN  /\ renderList' = ArrayFromWindow(startIndex, endIndex)
         /\ window' = <<startIndex, endIndex>>
  /\ dirtyParent' = TRUE
  /\ pending' = pending \ {"window"}
  /\ pc' = AfterCommit(pending', dirtyParent', dirtyCells)
  /\ UNCHANGED <<event, dataLength, offsetHeight, estimatedItemHeight, props,
                 scrollTop, itemHeights, height, cells, dirtyCells, toCommit>>

\* ---- useEffect #3: the spacer height ----
HeightEffect ==
  /\ pc = "effects"
  /\ pending = {"height"}
  /\ height' = IF dataLength # 0
                 THEN getCumulativeHeight(itemHeights, dataLength - 1)
                 ELSE 0
  /\ dirtyParent' = (dirtyParent \/ height' # height)
  /\ pending' = {}
  /\ pc' = AfterCommit(pending', dirtyParent', dirtyCells)
  /\ window' = <<>>
  /\ UNCHANGED <<event, dataLength, offsetHeight, estimatedItemHeight, props,
                 scrollTop, itemHeights, renderList, cells, dirtyCells,
                 toCommit>>

\* ---- onScroll ----
handleScroll(v) ==
  /\ pc = "idle"
  /\ v # scrollTop
  /\ scrollTop' = v
  /\ pending' = ChangedEffects(FALSE, FALSE, FALSE, TRUE)
  /\ dirtyParent' = TRUE
  /\ pc' = "render"
  /\ event' = "scroll"
  /\ window' = <<>>
  /\ UNCHANGED <<dataLength, offsetHeight, estimatedItemHeight, props,
                 itemHeights, height, renderList, cells, dirtyCells, toCommit>>

\* ---- the parent passes a new `data` array ----
ChangeData(n) ==
  /\ pc = "idle"
  /\ dataLength' = n
  /\ offsetHeight' = ArrayFill(n, NoLayout)
  /\ pending' = ChangedEffects(TRUE, n # dataLength, FALSE, FALSE)
  /\ dirtyParent' = TRUE
  /\ pc' = "render"
  /\ event' = "data"
  /\ window' = <<>>
  /\ UNCHANGED <<estimatedItemHeight, props, scrollTop, itemHeights, height,
                 renderList, cells, dirtyCells, toCommit>>

\* ---- the parent passes a new estimatedItemHeight ----
ChangeEstimate(e) ==
  /\ pc = "idle"
  /\ e # estimatedItemHeight
  /\ estimatedItemHeight' = e
  /\ pending' = ChangedEffects(FALSE, FALSE, TRUE, FALSE)
  /\ dirtyParent' = TRUE
  /\ pc' = "render"
  /\ event' = "estimate"
  /\ window' = <<>>
  /\ UNCHANGED <<dataLength, offsetHeight, props, scrollTop, itemHeights,
                 height, renderList, cells, dirtyCells, toCommit>>

Next ==
  \/ Render
  \/ Commit
  \/ InitEffect
  \/ WindowEffect
  \/ HeightEffect
  \/ \E v \in 0..MaxScroll : handleScroll(v)
  \/ \E n \in 0..MaxN : ChangeData(n)
  \/ \E e \in 1..MaxEst : ChangeEstimate(e)

Spec == Init /\ [][Next]_vars

\* the window effect about to run on any height store and scroll offset
InitResolver ==
  /\ dataLength \in 0..MaxN
  /\ offsetHeight = ArrayFill(dataLength, NoLayout)
  /\ containerHeight \in 1..MaxContainer
  /\ estimatedItemHeight \in 1..MaxEst
  /\ bufferCount \in 0..MaxBuffer
  /\ scrollTop \in 0..MaxScroll
  /\ itemHeights \in [1..dataLength -> 0..(IF MaxH > MaxEst THEN MaxH ELSE MaxEst)]
  /\ height = 0
  /\ renderList = <<>>
  /\ cells = NoCells
  /\ pc = "effects"
  /\ dirtyParent = FALSE
  /\ dirtyCells = {}
  /\ toCommit = {}
  /\ pending = {"window"}
  /\ window = <<>>
  /\ event = "scroll"

SpecResolver == InitResolver /\ [][WindowEffect]_vars

SpecAnyConfig == InitAnyConfig /\ [][Next]_vars

TypeOK ==
  /\ pc \in {"idle", "render", "commit", "effects", "crashed"}
  /\ dataLength \in 0..MaxN
  /\ Len(offsetHeight) = dataLength
  /\ toCommit \subseteq DOMAIN cells
  /\ \A j \in 1..Len(itemHeights) : itemHeights[j] # NaN

\* ---- vocabulary of the properties ----
Resolved == window # <<>>

startIndex == window[1]

endIndex == window[2]

TotalHeight == getCumulativeHeight(itemHeights, dataLength)

\* s: the first item whose bottom edge lies below the offset
FirstBelow(offset) ==
  CHOOSE s \in 0..(dataLength - 1) :
    /\ getCumulativeHeight(itemHeights, s + 1) > offset
    /\ \A r \in 0..(s - 1) : getCumulativeHeight(itemHeights, r + 1) <= offset

\* C1: whenever a window has just been resolved for a non-empty collection,
\* 0 <= startIndex <= endIndex <= N-1, and for a scroll offset beyond the
\* total height endIndex is N-1.
C1_WindowInRange ==
  (Resolved /\ dataLength > 0) =>
    /\ 0 <= startIndex
    /\ startIndex <= endIndex
    /\ endIndex <= dataLength - 1
    /\ (scrollTop > TotalHeight => endIndex = dataLength - 1)

\* C2: whenever the component is at rest, the spacer height equals the sum
\* of all N entries of the height store.
C2_HeightIsTotal ==
  pc = "idle" => height = TotalHeight

\* C3: right after a window resolution the rendered index list is exactly
\* the inclusive range startIndex..endIndex.
C3_RenderListIsWindow ==
  Resolved => Indices(renderList) = startIndex..endIndex

\* C4: every entry of the height store is strictly positive.
C4_HeightsPositive ==
  \A j \in 1..Len(itemHeights) : itemHeights[j] > 0

C6_CellsAtCumulativeOffset ==
  pc = "idle" =>
    \A idx \in DOMAIN cells :
      cells[idx].top = getCumulativeHeight(itemHeights, idx)

\* C7: a visible cell has reported its measured height during its current
\* mount; a cell whose measurement has not fired is hidden.
C7_VisibleOnlyAfterMeasured ==
  \A idx \in DOMAIN cells : cells[idx].isMouted => cells[idx].reported

C7_Witness ==
  /\ \E idx \in DOMAIN cells : cells[idx].isMouted
  /\ \E idx \in DOMAIN cells : ~cells[idx].isMouted /\ ~cells[idx].reported

\* C8: a window resolution made in the pass started by a mount, a new
\* collection or a new estimate reads a height store of length N holding
\* only the estimate; no resolution reads an entry that is neither the
\* current estimate nor a measurement of the current collection's item.
C8_ResetBeforeWindow ==
  Resolved =>
    /\ Len(itemHeights) = dataLength
    /\ event \in {"mount", "data", "estimate"} =>
         itemHeights = ArrayFill(dataLength, estimatedItemHeight)
    /\ \A i \in 0..(dataLength - 1) :
         At(itemHeights, i) \in {estimatedItemHeight, At(offsetHeight, i)}

C8_Witness ==
  /\ Resolved
  /\ event = "data"
  /\ dataLength > 1
  /\ \E idx \in DOMAIN cells : cells[idx].reported

\* C9: with containerHeight <= 0, estimatedItemHeight <= 0 or a negative
\* bufferCount no window is resolved and no cell is rendered.
C9_InvalidConfigRejected ==
  ~ValidConfig =>
    (window = <<>> /\ renderList = <<>> /\ DOMAIN cells = {})

\* C10: for 0 <= scrollTop < totalHeight the resolved startIndex is
\* max(0, s - bufferCount), s the first item whose bottom edge lies below
\* the scroll offset.
C10_StartIsFirstBelow ==
  (Resolved /\ 0 <= scrollTop /\ scrollTop < TotalHeight) =>
    startIndex = (IF FirstBelow(scrollTop) - bufferCount > 0
                    THEN FirstBelow(scrollTop) - bufferCount
                    ELSE 0)

\* ---- C11 ----
Threshold == containerHeight + bufferCount * estimatedItemHeight

\* height[s] + ... + height[e]
RunSum(s, e) ==
  getCumulativeHeight(itemHeights, e + 1) - getCumulativeHeight(itemHeights, s)

Crossing(s) == {e \in s..(dataLength - 1) : RunSum(s, e) > Threshold}

\* e: the first index at which the running sum exceeds the threshold,
\* N-1 when it never does
FirstOver(s) ==
  IF Crossing(s) # {}
    THEN CHOOSE e \in Crossing(s) : \A f \in Crossing(s) : e <= f
    ELSE dataLength - 1

\* C11: for a startIndex in [0, N-1] the resolved endIndex is
\* min(N-1, e + bufferCount), e the first index from startIndex on at which
\* the running sum of heights strictly exceeds
\* containerHeight + bufferCount * estimatedItemHeight, or N-1 if none does.
C11_EndIsFirstOverPlusBuffer ==
  (Resolved /\ 0 <= startIndex /\ startIndex <= dataLength - 1) =>
    endIndex = (IF FirstOver(startIndex) + bufferCount < dataLength - 1
                  THEN FirstOver(startIndex) + bufferCount
                  ELSE dataLength - 1)

C11_Witness ==
  /\ Resolved
  /\ startIndex > 0
  /\ startIndex <= dataLength - 1
  /\ Crossing(startIndex) # {}
  /\ endIndex < dataLength - 1

\* C12: a mounted cell has called updateH at most once since it mounted,
\* and exactly once when it is visible.
C12_ReportsOncePerMount ==
  \A idx \in DOMAIN cells :
    /\ ~cells[idx].repeated
    /\ cells[idx].isMouted => cells[idx].reported

\* C13: the measurement reports of a commit change the height store only
\* at the indices of the reporting cells, each to that cell's measured
\* height; every other entry, the length of the store and the scroll
\* offset stay as they were.
C13_ReportWritesOwnIndex ==
  [][pc = "commit" =>
       /\ Len(itemHeights') = Len(itemHeights)
       /\ scrollTop' = scrollTop
       /\ \A i \in 0..(Len(itemHeights) - 1) :
            IF i \in toCommit
              THEN At(itemHeights', i) = At(offsetHeight', i)
              ELSE At(itemHeights', i) = At(itemHeights, i)]_vars

C13_Witness ==
  \E idx \in DOMAIN cells : \E j \in 0..(Len(itemHeights) - 1) :
    /\ cells[idx].reported
    /\ At(itemHeights, idx) = At(offsetHeight, idx)
    /\ At(itemHeights, idx) # estimatedItemHeight
    /\ j # idx
    /\ At(offsetHeight, j) = NoLayout
    /\ At(itemHeights, j) = estimatedItemHeight

\* the window the resolver would compute from the current height store
WindowNow ==
  LET s == findStartIndex(itemHeights, scrollTop, bufferCount)
  IN  ArrayFromWindow(s, findEndIndex(itemHeights, s, dataLength,
                                       containerHeight, bufferCount,
                                       estimatedItemHeight))

\* C14: a commit stores the measured heights at once, leaves the rendered
\* index list as it is and schedules no window resolution; the rendered
\* index list changes only in a window resolution.
C14_ReportKeepsWindow ==
  [][/\ pc = "commit" =>
          /\ \A i \in toCommit : At(itemHeights', i) = At(offsetHeight', i)
          /\ renderList' = renderList
          /\ pending' = pending
          /\ ~Resolved'
     /\ renderList' # renderList => Resolved']_vars

C14_Witness ==
  /\ pc = "idle"
  /\ \E idx \in DOMAIN cells :
       cells[idx].reported /\ At(itemHeights, idx) # estimatedItemHeight
  /\ renderList # WindowNow

\* C15: the cumulative height of 0 items is 0, and the cumulative height
\* never decreases from k to k + 1 items of the height store.
C15_CumulativeMonotone ==
  /\ getCumulativeHeight(itemHeights, 0) = 0
  /\ \A k \in 0..(Len(itemHeights) - 1) :
       getCumulativeHeight(itemHeights, k) <=
         getCumulativeHeight(itemHeights, k + 1)

C15_Witness ==
  /\ Len(itemHeights) > 1
  /\ \E idx \in DOMAIN cells :
       cells[idx].reported /\ At(itemHeights, idx) = 0
  /\ getCumulativeHeight(itemHeights, Len(itemHeights)) > 0

\* the change of height[i] summed over the reporting cells i below k
RECURSIVE DeltaBelow(_, _, _, _)
DeltaBelow(S, k, old, new) ==
  IF S = {} THEN 0
  ELSE LET i == CHOOSE x \in S : TRUE
       IN  (IF i < k THEN At(new, i) - At(old, i) ELSE 0)
             + DeltaBelow(S \ {i}, k, old, new)

\* C16: a report replacing height[i] = old by h moves the cumulative
\* height of k items by h - old for every k > i and leaves it as it was
\* for every k <= i; the reports of one commit add up.
C16_ReportShiftsCumulative ==
  [][pc = "commit" =>
       \A k \in 0..Len(itemHeights) :
         getCumulativeHeight(itemHeights', k) =
           getCumulativeHeight(itemHeights, k)
             + DeltaBelow(toCommit, k, itemHeights, itemHeights')]_vars

C16_Witness ==
  /\ pc = "render"
  /\ \E idx \in dirtyCells :
       /\ idx + 1 < Len(itemHeights)
       /\ At(itemHeights, idx) # estimatedItemHeight
       /\ getCumulativeHeight(itemHeights, idx + 1)
            # (idx + 1) * estimatedItemHeight

\* the number of entries the scan of findStartIndex reads: indices
\* 0 .. StartReads - 1
StartReads == StartLoop(itemHeights, scrollTop, 0, 0)

\* C17: the scan of findStartIndex reads the height store only at indices
\* in [0, N-1].
C17_StartScanInBounds ==
  Resolved => StartReads - 1 <= dataLength - 1

\* item i's extent [cumulativeHeight(i), cumulativeHeight(i+1)) meets the
\* viewport [scrollTop, scrollTop + containerHeight)
InViewport(i) ==
  /\ getCumulativeHeight(itemHeights, i) <
       getCumulativeHeight(itemHeights, i + 1)
  /\ getCumulativeHeight(itemHeights, i) < scrollTop + containerHeight
  /\ getCumulativeHeight(itemHeights, i + 1) > scrollTop

\* C18: right after a window resolution for a non-empty collection every
\* item whose extent meets the viewport is in the rendered index list.
C18_ViewportCovered ==
  (Resolved /\ dataLength > 0) =>
    \A i \in 0..(dataLength - 1) :
      InViewport(i) => i \in Indices(renderList)

\* C19: whenever VirtualList renders, every index of renderList is a valid
\* index of the current collection.
C19_RenderListValid ==
  /\ pc = "render" /\ dirtyParent =>
       \A idx \in Indices(renderList) : 0 <= idx /\ idx < dataLength
  /\ pc # "crashed"

\* C20: whenever the component is at rest, the height store holds the
\* measured height of every mounted, visible cell.
C20_VisibleCellsMeasured ==
  pc = "idle" =>
    \A idx \in DOMAIN cells :
      cells[idx].isMouted => At(itemHeights, idx) = At(offsetHeight, idx)

====
